---- MODULE Spec2Model ----
(***************************************************************************)
(* Deferred-invocation task schedulers of the forward_move examples, and   *)
(* the containers and the resource class that accompany them.              *)
(*                                                                         *)
(*   TaskScheduler::Scheduler        examples/comprehensive_example.cpp    *)
(*   ModernAsyncDesign::TaskScheduler examples/cpp20_advanced.cpp          *)
(*   CacheSystem::LRUCache           examples/comprehensive_example.cpp    *)
(*   EventSystem::EventHandler       examples/comprehensive_example.cpp    *)
(*   ResourceManager                 examples/move_semantics.cpp           *)
(*                                                                         *)
(* A task is a record  [id, kind, args, refs, made]:  id identifies the    *)
(* closure object, kind is what its callable does when it is invoked ("ok" *)
(* returns, "throw" raises, "subAnon" calls schedule_task and "subNamed"   *)
(* calls schedule_named_task on the scheduler that runs it), args is the   *)
(* tuple of captured arguments, refs names the slots of the tuple that are *)
(* references and the variables they are bound to, made is the list of     *)
(* constructor calls that brought the callable and each argument into the  *)
(* stored closure.  Strings (map keys, argument values) are small          *)
(* integers; the order of the integers stands for the lexicographic order  *)
(* of std::string.                                                         *)
(***************************************************************************)
EXTENDS Integers, Sequences, FiniteSets, TLC

\* ------------------------------------------------------------------ bounds
\* closures created per scheduler (submitted by the program or by a task)
MaxTasks == 3
\* execute_all calls per scheduler
MaxRuns == 2
\* distinct names (keys of namedTasks)
MaxName == 2
\* distinct priorities
MaxPrio == 2
\* distinct strings the caller assigns or passes as temporaries
MaxVal == 1
\* schedule_task calls that capture the caller's variables
MaxCaptures == 1
\* distinct keys of the LRU cache
MaxKey == 3
\* largest maxSize an LRU cache is constructed with
MaxSize == 2
\* distinct LargeObject values put into the cache
MaxObj == 1
\* events created per EventHandler
MaxEvents == 3
\* ResourceManager objects alive at a time
MaxRm == 2
\* buffers allocated by ResourceManager constructors
MaxBuf == 2
\* largest size a ResourceManager is constructed with
MaxLen == 1
\* copy constructions and copy assignments of ResourceManager objects
MaxCopies == 1

Names == 1..MaxName
Ids == 1..MaxTasks
Prios == 1..MaxPrio
NoName == 0

VARIABLES
    tasks,       \* Scheduler::tasks, std::vector<Task>
    cap,         \* capacity of the vector's buffer
    namedTasks,  \* Scheduler::namedTasks, std::map<std::string, Task>
    pc,          \* position of execute_all: "idle", "anon", "named", "crashed";
                 \* "destroyed" once the Scheduler object is gone
    it,          \* range-for iterator over tasks (index, 1-based)
    endIt,       \* end iterator the range-for cached when the loop began
    stale,       \* the buffer the iterator points into was reallocated
    nit,         \* map iterator of the second loop (a key, NoName = end())
    result,      \* how the last execute_all ended: "none", "returned", "threw"
    runs,        \* execute_all calls started so far
    nextId,      \* next closure identity
    runLog,      \* invocations of the current / last execute_all, in order
    batch,       \* history: tasks as they were when execute_all was called
    batchNamed,  \* history: namedTasks as it was when execute_all was called
    count,       \* history: invocations of each closure so far
    replaced,    \* history: closures that schedule_named_task overwrote
    anonIds,     \* history: closures submitted with schedule_task
    caller,      \* the caller's local variables (bindings) holding strings
    ptasks,      \* ModernAsyncDesign::TaskScheduler::tasks
    pruns,       \* TaskScheduler::execute_all calls so far
    presult,     \* how the last TaskScheduler::execute_all ended
    prunLog,     \* ids invoked by the last TaskScheduler::execute_all
    pcount,      \* history: invocations of each priority task so far
    palive,      \* the TaskScheduler object exists (it was not destroyed)
    pnext,       \* position of the next add_task call
    otasks,      \* tasks of the second TaskScheduler (moved_scheduler)
    oalive,      \* the second TaskScheduler object exists
    cache,       \* LRUCache::cache, std::vector<CacheNode>
    maxSize,     \* LRUCache::maxSize
    cpc,         \* the cache: "none" (not constructed), "ok", "crashed"
    lastOp,      \* the last put / get call: its arguments and what it returned
    lastPut,     \* history: for each key held, the value its last put stored
    recency,     \* history: the keys held, least recently used first
    eventQueue,  \* EventHandler::eventQueue, std::queue<std::unique_ptr<Event>>
    epc,         \* position of process_events: "idle", "loop", "crashed"
    handled,     \* history: the events process_events has handled, in order
    added,       \* history: the events pushed into the queue, in order
    enext,       \* next event identity
    lastE,       \* the last call on the handler: "none", "add", "process"
    rm,          \* the ResourceManager objects: [live, data, size, name]
    heap,        \* the int[] buffers that are allocated and not freed
    nextBuf,     \* next buffer identity
    lastRm,      \* the last ResourceManager operation: [op, d, src]
    rmCopies     \* copy constructions and copy assignments so far

schedVars == <<tasks, cap, namedTasks, pc, it, endIt, stale, nit, result, runs,
               nextId, runLog, batch, batchNamed, count, replaced, anonIds>>
prioVars == <<ptasks, pruns, presult, prunLog, pcount, palive, pnext, otasks,
             oalive>>
cacheVars == <<cache, maxSize, cpc, lastOp, lastPut, recency>>
eventVars == <<eventQueue, epc, handled, added, enext, lastE>>
rmVars == <<rm, heap, nextBuf, lastRm, rmCopies>>
otherVars == <<cacheVars, eventVars, rmVars>>
vars == <<tasks, cap, namedTasks, pc, it, endIt, stale, nit, result, runs,
          nextId, runLog, batch, batchNamed, count, replaced, anonIds,
          caller, ptasks, pruns, presult, prunLog, pcount, palive, pnext,
          otasks, oalive,
          cache, maxSize, cpc, lastOp, lastPut, recency,
          eventQueue, epc, handled, added, enext, lastE, rm, heap, nextBuf,
          lastRm, rmCopies>>

\* ------------------------------------------------------------- helpers
EmptyMap == [k \in {} |-> 0]

SetMin(S) == CHOOSE x \in S : \A y \in S : x <= y

Last(s) == s[Len(s)]

\* what a submitted callable may do when it is invoked
Kinds == {"ok", "throw", "subAnon", "subNamed"}

MkTask(i, k, a, r, m) ==
    [id |-> i, kind |-> k, args |-> a, refs |-> r, made |-> m]

\* ------------------------------------------------- containers (std::)
\* variant: the new element goes to the front
EmplaceFront(v, t) == <<t>> \o v

\* std::vector::emplace_back: the new element goes to the end
EmplaceBack(v, t) == Append(v, t)

\* capacity after an emplace_back into a vector of length n and capacity c
\* (geometric growth; the buffer is reallocated exactly when n = c)
Grow(n, c) == IF n < c THEN c ELSE IF c = 0 THEN 1 ELSE 2 * c

Reallocates(n, c) == n = c

\* variant: the call of clear() is missing
ClearNothing(v) == v

\* std::vector::clear: no element is left, the capacity stays
Clear(v) == << >>

\* variant: std::map::insert, which keeps the element a present key maps to
MapInsert(m, k, t) == [x \in (DOMAIN m) \cup {k} |-> IF x \in DOMAIN m THEN m[x] ELSE t]

\* variant: the map is assigned a fresh one-element map
MapReplaceAll(m, k, t) == [x \in {k} |-> t]

\* std::map::operator[] followed by assignment: insert or overwrite
MapAssign(m, k, t) == [x \in (DOMAIN m) \cup {k} |-> IF x = k THEN t ELSE m[x]]

\* variant: std::greater on the keys
KeyAfter(a, b) == a > b

\* the ordering of std::map<std::string, Task>: std::less on the keys
KeyBefore(a, b) == a < b

\* the first key of S in the map's ordering
First(S) == CHOOSE x \in S : \A y \in S : y # x => KeyBefore(x, y)

\* std::map::begin(): the first key, or end()
MapBegin(m) == IF DOMAIN m = {} THEN NoName ELSE First(DOMAIN m)

\* ++iterator on std::map: the key that follows k in the map as it is now
MapNext(m, k) ==
    IF {x \in DOMAIN m : KeyBefore(k, x)} = {} THEN NoName
    ELSE First({x \in DOMAIN m : KeyBefore(k, x)})

\* task() inside execute_all has no try/catch around it: an exception
\* raised by the callable leaves the loop and execute_all
Propagates(kind) == kind = "throw"

\* variant: a scope guard that empties the vector when the call is left
UnwindClears(v) == << >>

\* the exception leaves execute_all before tasks.clear() is reached and no
\* destructor on the way touches the vector: tasks is left as it is
Unwind(v) == v

\* ------------------------------------------------ argument capture
\* the caller's local std::string variables message (initially 1) and str
\* (initially 2); Empty is the state a std::string is left in after it was
\* moved from; Vals are the strings the caller writes later on and the
\* strings its temporaries hold.  The caller also holds a callable object
\* with state of its own, func (a closure that owns a TaskObject), which is
\* Empty once it was moved from
Bindings == {"message", "str"}
Empty == 0
Vals == 1..MaxVal

\* an argument expression of a schedule_task call: a named variable (lvalue),
\* std::move(variable) (xvalue), a temporary holding v (prvalue), or
\* std::ref(variable) (a std::reference_wrapper to the variable)
ArgExprs ==
    [b : Bindings, cat : {"lvalue", "xvalue", "ref"}, v : {Empty}]
        \cup [b : {"temp"}, cat : {"prvalue"}, v : Vals]

\* the callable expression of a call: the caller's callable object by name,
\* std::move of it, or a temporary (a lambda expression, a function name)
FuncExprs ==
    [b : {"func"}, cat : {"lvalue", "xvalue"}, v : {Empty}]
        \cup [b : {"temp"}, cat : {"prvalue"}, v : {Empty}]

\* scheduler.schedule_task(simple_task), schedule_task([...]() {...})
TempFunc == [b |-> "temp", cat |-> "prvalue", v |-> Empty]

\* variant: args used without std::forward, a named parameter is an lvalue
ForwardAsLvalue(cat) == "lvalue"

\* variant: std::move in the place of std::forward, everything is an rvalue
ForwardAsRvalue(cat) == "rvalue"

\* Args&& with std::forward<Args>: an lvalue stays an lvalue, an xvalue or
\* prvalue is forwarded as an rvalue
Forward(cat) == IF cat = "lvalue" THEN "lvalue" ELSE "rvalue"

\* the value an argument expression denotes in the caller's frame
ValueOf(e, c) == IF e.b = "temp" THEN e.v ELSE c[e.b]

\* argument j of the call is forwarded as an rvalue of the variable b: the
\* construction of slot j moves the variable's value out
MovesOut(es, j, b) ==
    es[j].b = b /\ es[j].cat # "ref" /\ Forward(es[j].cat) = "rvalue"

\* the value argument i denotes when slot i is constructed.  The tuple of
\* libstdc++ constructs its last element first (each _Tuple_impl has the
\* rest of the tuple as its first base class), so a variable that a later
\* argument of the same call passes with std::move is already moved-from
ValueAtConstruction(es, i, c) ==
    IF es[i].b # "temp" /\ \E j \in (i + 1)..Len(es) : MovesOut(es, j, es[i].b)
    THEN Empty ELSE ValueOf(es[i], c)

\* std::make_tuple(std::forward<Args>(args)...): slot i is constructed from
\* argument i, by the move constructor for an rvalue and by the copy
\* constructor for an lvalue; either way the slot holds the value the
\* argument has at that moment.  The slot made from a std::reference_wrapper
\* holds no value of its own
MakeTuple(es, c) ==
    [i \in 1..Len(es) |->
        IF es[i].cat = "ref" THEN Empty ELSE ValueAtConstruction(es, i, c)]

\* variant: std::forward_as_tuple / a capture by reference, every slot made
\* from a named variable is a reference to it
TieRefs(es) ==
    [i \in {j \in 1..Len(es) : es[j].b # "temp"} |-> es[i].b]

\* the slots of the tuple that are references: std::make_tuple decays every
\* argument type to an object type, except std::reference_wrapper<T>, which
\* it turns into T&
TupleRefs(es) ==
    [i \in {j \in 1..Len(es) : es[j].cat = "ref"} |-> es[i].b]

\* std::get<I>(tuple) in call_with_tuple: the slot's own object, or the
\* variable a reference slot is bound to
Get(t, i, c) == IF i \in DOMAIN t.refs THEN c[t.refs[i]] ELSE t.args[i]

\* variant: the index pack expanded in descending order
ReceivedReversed(t, c) ==
    [i \in 1..Len(t.args) |-> Get(t, Len(t.args) + 1 - i, c)]

\* the arguments func(std::get<I>(tuple)...) passes to the callable (the
\* callables take them by reference to const and leave the tuple as it is)
Received(t, c) == [i \in 1..Len(t.args) |-> Get(t, i, c)]

\* the constructor the forwarded expression selects
Construct(cat) == IF Forward(cat) = "lvalue" THEN "copy" ELSE "move"

\* the constructor calls that bring one argument into the stored closure:
\* std::make_tuple constructs the slot (the init-capture is initialised by
\* the returned tuple itself), then the constructor of std::function moves
\* the closure, and the tuple in it, into its own storage.  A reference slot
\* is bound, nothing is constructed
ArgTransfers(e) ==
    IF e.cat = "ref" THEN << >> ELSE <<Construct(e.cat), "move">>

\* the constructor calls that bring the callable into the stored closure:
\* the init-capture func = std::forward<Func>(func), then the move of the
\* closure into the std::function
FuncTransfers(fe) == <<Construct(fe.cat), "move">>

\* schedule_named_task(name, Task task): the parameter task is constructed
\* from the caller's callable; the std::function is then moved into the
\* map, which constructs no callable
NamedTransfers(fe) == <<Construct(fe.cat)>>

\* the constructor calls of one schedule_task call
Made(fe, es) ==
    [func |-> FuncTransfers(fe),
     args |-> [i \in 1..Len(es) |-> ArgTransfers(es[i])]]

\* the argument lists of the calls: no argument (simple_task), one, or two;
\* a two-argument call passes message or a temporary, then str or a
\* temporary, by value, or it names message twice
ArgLists ==
    {<< >>} \cup {<<e>> : e \in ArgExprs}
        \cup {<<e, f>> : e \in {x \in ArgExprs : x.b # "str" /\ x.cat # "ref"},
                         f \in {x \in ArgExprs : x.b # "message" /\ x.cat # "ref"}}
        \cup {<<e, f>> : e, f \in {x \in ArgExprs : x.b = "message"}}

\* the caller's variables after the capture: a variable whose value was
\* move-constructed into a slot is left moved-from
AfterCapture(es, c) ==
    [b \in DOMAIN c |->
        IF \E i \in 1..Len(es) : MovesOut(es, i, b) THEN Empty ELSE c[b]]

\* the caller's callable after func = std::forward<Func>(func): moved-from
\* when it was forwarded as an rvalue
AfterBoxing(fe, c) ==
    IF fe.b = "func" /\ Forward(fe.cat) = "rvalue"
    THEN [c EXCEPT !["func"] = Empty] ELSE c

\* ------------------------------------------------- CacheSystem::LargeObject
\* a LargeObject is [v, suffix]: v stands for the name and the data it was
\* constructed with, suffix is what the copy operations appended to the name
CKeys == 1..MaxKey
Sizes == 0..MaxSize
Objs == 1..MaxObj

\* LargeObject(name, size)
LargeObject(v) == [v |-> v, suffix |-> ""]

\* a LargeObject that was moved from: data and name are empty
MovedFrom == [v |-> Empty, suffix |-> ""]

\* LargeObject(const LargeObject&): data(other.data), name(other.name + "_copy")
CopyConstruct(o) == [v |-> o.v, suffix |-> o.suffix \o "_copy"]

\* operator=(const LargeObject&): name = other.name + "_assigned"
CopyAssign(o) == [v |-> o.v, suffix |-> o.suffix \o "_assigned"]

\* the value expression of a put call: a temporary LargeObject(v), or a
\* named object holding v
ValExprs == [cat : {"prvalue", "lvalue"}, v : Objs]

\* the object a special member function leaves at its destination
Apply(op, o) ==
    CASE op = "copy" -> CopyConstruct(o)
      [] op = "copy_assign" -> CopyAssign(o)
      [] OTHER -> o

RECURSIVE ApplyAll(_, _)
ApplyAll(ops, o) ==
    IF ops = << >> THEN o ELSE ApplyAll(Tail(ops), Apply(Head(ops), o))

\* the argument object after the call: moved-from when the first special
\* member function applied to it was a move
ArgAfter(ops, o) == IF Head(ops) \in {"move", "move_assign"} THEN MovedFrom ELSE o

\* ------------------------------------------------- CacheSystem::LRUCache
\* CacheNode(Key k, Value v) : key(std::move(k)), value(std::move(v))
CacheNode(k, v) == [key |-> k, value |-> v]

\* variant: CacheNode(K&& k, V&& v) : value(std::forward<V>(v)), the
\* constructor the lifecycle analysis proposes
NodeTransfersForwarded(cat) == <<Construct(cat)>>

\* the constructor calls that bring the value of put into a new node:
\* emplace_back constructs the by-value parameter v from the forwarded
\* argument, then value(std::move(v)) moves the parameter into the member
NodeTransfers(cat) == <<Construct(cat), "move">>

\* it->value = std::forward<V>(value): the assignment operator selected
AssignTransfers(cat) ==
    IF Forward(cat) = "lvalue" THEN <<"copy_assign">> ELSE <<"move_assign">>

\* std::find_if over cache: the index of the node with the key, 0 for end()
FindIf(c, k) ==
    IF \E i \in 1..Len(c) : c[i].key = k
    THEN SetMin({i \in 1..Len(c) : c[i].key = k}) ELSE 0

\* variant: the node stays where it is
RotateNone(c, i) == c

\* std::rotate(it, it + 1, cache.end()): the node at i goes to the end
Rotate(c, i) == SubSeq(c, 1, i - 1) \o SubSeq(c, i + 1, Len(c)) \o <<c[i]>>

\* cache.erase(cache.begin())
EraseBegin(c) == Tail(c)

\* variant: the test is cache.size() > maxSize
OverFull(n, m) == n > m

\* cache.size() >= maxSize
Full(n, m) == n >= m

\* size()
size == Len(cache)

\* the keys held, in the order of the vector
KeysOf(c) == [i \in 1..Len(c) |-> c[i].key]

NoOp ==
    [op |-> "none", key |-> 0, cat |-> "none", found |-> FALSE,
     value |-> MovedFrom, transfers |-> << >>, arg |-> MovedFrom,
     evicted |-> 0]

\* ------------------------------------------------- EventSystem::Event
\* an event is [id, type]; type is the class of the object the pointer
\* owns; NullEvent is a std::unique_ptr<Event> that owns nothing
EventTypes == {"Event", "MouseEvent", "KeyboardEvent"}

NullEvent == [id |-> 0, type |-> "null"]

\* variant: a stack, the new element becomes the front
PushFront(q, ev) == <<ev>> \o q

\* std::queue::push
Push(q, ev) == Append(q, ev)

\* std::queue::front
Front(q) == Head(q)

\* std::queue::pop
Pop(q) == Tail(q)

\* what process_events prints for an event besides its type: the branch
\* the dynamic_casts select
Handle(ev) ==
    CASE ev.type = "MouseEvent" -> "mouse"
      [] ev.type = "KeyboardEvent" -> "key"
      [] OTHER -> "none"

\* getQueueSize()
getQueueSize == Len(eventQueue)

\* ------------------------------------------------- ResourceManager
\* an object is [live, data, size, name]: data is the buffer the
\* std::unique_ptr<int[]> owns (NullPtr for none)
Slots == 1..MaxRm
Bufs == 1..MaxBuf
Lens == 0..MaxLen
NullPtr == 0
RmNames == {"original"}

\* an operation on the object in slot d, with the object in slot src as
\* its argument (0 for none)
RmOp(op, d, src) == [op |-> op, d |-> d, src |-> src]

\* storage that holds no ResourceManager object
NoObject == [live |-> FALSE, data |-> NullPtr, size |-> 0, name |-> ""]

\* variant: the source keeps its pointer (the pointer is copied)
KeepPtr(p) == p

\* std::move(other.data) into a unique_ptr: what the source is left with
ReleasePtr(p) == NullPtr

\* the buffers that are still allocated after the unique_ptr that owned
\* old was assigned to or destroyed
Freed(h, old) == h \ {old}

\* ------------------------------------------------------------------ Init
Init ==
    /\ tasks = << >>
    /\ cap = 0
    /\ namedTasks = EmptyMap
    /\ pc = "idle"
    /\ it = 1
    /\ endIt = 0
    /\ stale = FALSE
    /\ nit = NoName
    /\ result = "none"
    /\ runs = 0
    /\ nextId = 1
    /\ runLog = << >>
    /\ batch = << >>
    /\ batchNamed = EmptyMap
    /\ count = [i \in Ids |-> 0]
    /\ replaced = {}
    /\ anonIds = {}
    /\ caller = [message |-> 1, str |-> 2, func |-> 1]
    /\ ptasks = << >>
    /\ pruns = 0
    /\ presult = "none"
    /\ prunLog = << >>
    /\ pcount = [i \in Ids |-> 0]
    /\ palive = TRUE
    /\ pnext = 1
    /\ otasks = << >>
    /\ oalive = FALSE
    /\ cache = << >>
    /\ maxSize = 0
    /\ cpc = "none"
    /\ lastOp = NoOp
    /\ lastPut = EmptyMap
    /\ recency = << >>
    /\ eventQueue = << >>
    /\ epc = "idle"
    /\ handled = << >>
    /\ added = << >>
    /\ enext = 1
    /\ lastE = "none"
    /\ rm = [o \in Slots |-> NoObject]
    /\ heap = {}
    /\ nextBuf = 1
    /\ lastRm = RmOp("none", 0, 0)
    /\ rmCopies = 0

\* ------------------------------------------- TaskScheduler::Scheduler
\* the part of a submission that schedule_task (called by the program or by
\* a running task) performs on the vector
SubmitAnon(t) ==
    /\ tasks' = EmplaceBack(tasks, t)
    /\ cap' = Grow(Len(tasks), cap)
    /\ anonIds' = anonIds \cup {t.id}
    /\ nextId' = nextId + 1

\* the part of a submission that schedule_named_task performs on the map
SubmitNamed(n, t) ==
    /\ namedTasks' = MapAssign(namedTasks, n, t)
    /\ replaced' = replaced \cup
           (IF n \in DOMAIN namedTasks THEN {namedTasks[n].id} ELSE {})
    /\ nextId' = nextId + 1

\* the task a running "subAnon" callable submits with schedule_task
Child == MkTask(nextId, "ok", << >>, EmptyMap, Made(TempFunc, << >>))

\* the task a running "subNamed" callable submits with schedule_named_task
NamedChild ==
    MkTask(nextId, "ok", << >>, EmptyMap,
           [func |-> NamedTransfers(TempFunc), args |-> << >>])

\* one entry of the invocation log: key is NoName for an anonymous task,
\* args are the arguments the callable received
MkEntry(t, k) ==
    [id |-> t.id, key |-> k, kind |-> t.kind, args |-> Received(t, caller)]

\* schedule_task(func, args...) called by the program
ScheduleTask(fe, kind, es) ==
    /\ pc = "idle"
    /\ nextId <= MaxTasks
    /\ SubmitAnon(MkTask(nextId, kind, MakeTuple(es, caller), TupleRefs(es),
                         Made(fe, es)))
    /\ caller' = AfterBoxing(fe, AfterCapture(es, caller))
    /\ UNCHANGED <<namedTasks, pc, it, endIt, stale, nit, result, runs, runLog,
                   batch, batchNamed, count, replaced>>
    /\ UNCHANGED <<prioVars, otherVars>>

\* schedule_named_task(name, task) called by the program
ScheduleNamedTask(fe, name, kind) ==
    /\ pc = "idle"
    /\ nextId <= MaxTasks
    /\ SubmitNamed(name, MkTask(nextId, kind, << >>, EmptyMap,
                                [func |-> NamedTransfers(fe), args |-> << >>]))
    /\ caller' = AfterBoxing(fe, caller)
    /\ UNCHANGED <<tasks, cap, pc, it, endIt, stale, nit, result, runs, runLog,
                   batch, batchNamed, count, anonIds>>
    /\ UNCHANGED <<prioVars, otherVars>>

\* the caller assigns a new value to one of its variables
CallerAssign(b, v) ==
    /\ pc = "idle"
    /\ caller[b] # v
    /\ caller' = [caller EXCEPT ![b] = v]
    /\ UNCHANGED schedVars
    /\ UNCHANGED <<prioVars, otherVars>>

\* execute_all is called: the range-for takes begin() and end() of tasks
ExecuteAllBegin ==
    /\ pc = "idle"
    /\ runs < MaxRuns
    /\ pc' = "anon"
    /\ it' = 1
    /\ endIt' = Len(tasks)
    /\ stale' = FALSE
    /\ runs' = runs + 1
    /\ result' = "none"
    /\ runLog' = << >>
    /\ batch' = tasks
    /\ batchNamed' = namedTasks
    /\ UNCHANGED <<tasks, cap, namedTasks, nit, nextId, count, replaced, anonIds,
                   caller>>
    /\ UNCHANGED <<prioVars, otherVars>>

\* one iteration of `for (auto& task : tasks) task();`.  After the buffer
\* was reallocated under the loop the read of *it is undefined; one outcome
\* of the optimised builds is that the freed buffer still holds the element
\* as it was (the stores of the relocation into it are dead), so the
\* iteration goes as if nothing had happened, up to the end the loop cached
AnonStep ==
    /\ pc = "anon"
    /\ it <= endIt
    /\ LET t == tasks[it] IN
        /\ runLog' = Append(runLog, MkEntry(t, NoName))
        /\ count' = [count EXCEPT ![t.id] = @ + 1]
        /\ CASE t.kind = "subAnon" ->
                   \* emplace_back while the loop holds iterators into tasks
                   /\ nextId <= MaxTasks
                   /\ SubmitAnon(Child)
                   /\ stale' = (stale \/ Reallocates(Len(tasks), cap))
                   /\ UNCHANGED <<namedTasks, replaced>>
             [] t.kind = "subNamed" ->
                   /\ nextId <= MaxTasks
                   /\ \E n \in Names : SubmitNamed(n, NamedChild)
                   /\ UNCHANGED <<tasks, cap, anonIds, stale>>
             [] OTHER ->
                   /\ tasks' = IF Propagates(t.kind) THEN Unwind(tasks) ELSE tasks
                   /\ UNCHANGED <<cap, anonIds, nextId, namedTasks, replaced,
                                  stale>>
        /\ IF Propagates(t.kind)
           THEN /\ pc' = "idle"
                /\ result' = "threw"
                /\ it' = 1
                /\ endIt' = 0
           ELSE /\ it' = it + 1
                /\ UNCHANGED <<pc, result, endIt>>
    /\ UNCHANGED <<nit, runs, batch, batchNamed, caller>>
    /\ UNCHANGED <<prioVars, otherVars>>

\* the loop goes on after the buffer was reallocated under it: the iterator
\* and the cached end point into the freed buffer, whose elements were moved
\* from.  Incrementing and comparing the iterator is undefined, and so is
\* reading the next element: the other outcomes are that the call of the
\* moved-from (empty) std::function throws std::bad_function_call when there
\* is a next element, or that the step faults (the checked iterators of
\* -D_GLIBCXX_DEBUG abort in operator++, also when the task that submitted
\* was the last one).
StaleStep ==
    /\ pc = "anon"
    /\ stale
    /\ \/ /\ it <= endIt
          /\ pc' = "idle"
          /\ result' = "threw"
       \/ /\ pc' = "crashed"
          /\ UNCHANGED result
    /\ it' = 1
    /\ endIt' = 0
    /\ stale' = FALSE
    /\ UNCHANGED <<tasks, cap, namedTasks, nit, runs, nextId,
                   runLog, batch, batchNamed, count, replaced, anonIds, caller>>
    /\ UNCHANGED <<prioVars, otherVars>>

\* the first loop is over: tasks.clear(), then the second loop takes
\* namedTasks.begin()
ClearStep ==
    /\ pc = "anon"
    /\ it > endIt
    /\ tasks' = Clear(tasks)
    /\ stale' = FALSE
    /\ it' = 1
    /\ endIt' = 0
    /\ pc' = "named"
    /\ nit' = MapBegin(namedTasks)
    /\ UNCHANGED <<cap, namedTasks, result, runs, nextId, runLog,
                   batch, batchNamed, count, replaced, anonIds, caller>>
    /\ UNCHANGED <<prioVars, otherVars>>

\* one iteration of `for (auto& pair : namedTasks) pair.second();`
NamedStep ==
    /\ pc = "named"
    /\ nit # NoName
    /\ LET t == namedTasks[nit] IN
        /\ runLog' = Append(runLog, MkEntry(t, nit))
        /\ count' = [count EXCEPT ![t.id] = @ + 1]
        /\ CASE t.kind = "subAnon" ->
                   /\ nextId <= MaxTasks
                   /\ SubmitAnon(Child)
                   /\ UNCHANGED <<namedTasks, replaced>>
             [] t.kind = "subNamed" ->
                   /\ nextId <= MaxTasks
                   /\ \E n \in Names : SubmitNamed(n, NamedChild)
                   /\ UNCHANGED <<tasks, cap, anonIds>>
             [] OTHER ->
                   UNCHANGED <<tasks, cap, anonIds, nextId, namedTasks, replaced>>
        /\ IF Propagates(t.kind)
           THEN /\ pc' = "idle"
                /\ result' = "threw"
                /\ nit' = NoName
           ELSE \* a callable that assigned to its own map entry destroyed the
                \* std::function it is running in: undefined, the call
                \* returns into the loop or faults
                \/ /\ nit' = MapNext(namedTasks', nit)
                   /\ UNCHANGED <<pc, result>>
                \/ /\ nit \in DOMAIN namedTasks'
                   /\ namedTasks'[nit] # t
                   /\ pc' = "crashed"
                   /\ nit' = NoName
                   /\ UNCHANGED result
    /\ UNCHANGED <<it, endIt, stale, runs, batch, batchNamed, caller>>
    /\ UNCHANGED <<prioVars, otherVars>>

\* the second loop is over: execute_all returns
ReturnStep ==
    /\ pc = "named"
    /\ nit = NoName
    /\ pc' = "idle"
    /\ result' = "returned"
    /\ UNCHANGED <<tasks, cap, namedTasks, it, endIt, stale, nit, runs, nextId,
                   runLog, batch, batchNamed, count, replaced, anonIds, caller>>
    /\ UNCHANGED <<prioVars, otherVars>>

ExecuteAll ==
    ExecuteAllBegin \/ AnonStep \/ StaleStep \/ ClearStep \/ NamedStep \/ ReturnStep

\* variant: the count of ModernAsyncDesign::TaskScheduler, tasks.size() alone
tasksSize == Len(tasks)

\* getTaskCount()
getTaskCount == Len(tasks) + Cardinality(DOMAIN namedTasks)

\* the closures the scheduler holds
Held ==
    {tasks[k].id : k \in 1..Len(tasks)}
        \cup {namedTasks[n].id : n \in DOMAIN namedTasks}

\* variant: a destructor that drains the scheduler by running what is left
DestroyRunning(c, held) == [i \in DOMAIN c |-> IF i \in held THEN c[i] + 1 ELSE c[i]]

\* the invocation counts after the members were destroyed: the destructor
\* of std::function destroys the closure it holds and does not call it
DestroyMembers(c, held) == c

\* the scheduler goes out of scope (the end of demonstrate): Scheduler
\* declares no destructor, its members namedTasks and tasks are destroyed
Destroy ==
    /\ pc = "idle"
    /\ pc' = "destroyed"
    /\ count' = DestroyMembers(count, Held)
    /\ tasks' = << >>
    /\ cap' = 0
    /\ namedTasks' = EmptyMap
    /\ UNCHANGED <<it, endIt, stale, nit, result, runs, nextId, runLog, batch,
                   batchNamed, replaced, anonIds, caller>>
    /\ UNCHANGED <<prioVars, otherVars>>

\* the program drives one Scheduler with callables of every kind, called
\* without arguments (as simple_task is)
NextSched ==
    \/ \E kind \in Kinds : ScheduleTask(TempFunc, kind, << >>)
    \/ \E name \in Names, kind \in Kinds : ScheduleNamedTask(TempFunc, name, kind)
    \/ ExecuteAll
    \/ Destroy

SpecSched == Init /\ [][NextSched]_vars

\* ------------------------------- ModernAsyncDesign::TaskScheduler
\* a Task is [id, prio, kind]: id is the position of its add_task call,
\* kind "empty" is a Task built from an empty std::function
PKinds == {"ok", "throw", "empty"}

\* the comparator handed to std::sort: a goes before b
Before(a, b) == a.prio > b.prio

\* s is ordered by the comparator
IsSorted(s) == \A i, j \in 1..Len(s) : i < j => ~Before(s[j], s[i])

\* the orders std::sort may leave v in: every permutation of v that is
\* ordered by the comparator (std::sort does not keep equal elements in
\* their original order)
SortResults(v) ==
    {s \in {[i \in 1..Len(v) |-> v[p[i]]] : p \in Permutations(1..Len(v))} :
        IsSorted(s)}

\* Task::execute: the callable is invoked when task_func is not empty
Invokes(t) == t.kind # "empty"

\* the number of Task::execute calls the loop of execute_all makes on s:
\* up to and including the first task whose callable raises
Executed(s) ==
    IF \E i \in 1..Len(s) : s[i].kind = "throw"
    THEN SetMin({i \in 1..Len(s) : s[i].kind = "throw"})
    ELSE Len(s)

\* add_task(name, priority, func)
AddTask(prio, kind) ==
    /\ palive
    /\ pnext <= MaxTasks
    /\ ptasks' = EmplaceBack(ptasks, [id |-> pnext, prio |-> prio, kind |-> kind])
    /\ pnext' = pnext + 1
    /\ UNCHANGED <<pruns, presult, prunLog, pcount, palive, otasks, oalive>>
    /\ UNCHANGED <<schedVars, caller, otherVars>>

\* TaskScheduler::execute_all: std::sort, then task.execute() for each task
PExecuteAll ==
    /\ palive
    /\ pruns < MaxRuns
    /\ pruns' = pruns + 1
    /\ \E s \in SortResults(ptasks) :
        /\ ptasks' = s
        /\ prunLog' = SubSeq(s, 1, Executed(s))
        /\ pcount' = [i \in Ids |->
                        IF \E k \in 1..Executed(s) : s[k].id = i /\ Invokes(s[k])
                        THEN pcount[i] + 1 ELSE pcount[i]]
        /\ presult' = IF Executed(s) > 0 /\ s[Executed(s)].kind = "throw"
                      THEN "threw" ELSE "returned"
    /\ UNCHANGED <<palive, pnext, otasks, oalive>>
    /\ UNCHANGED <<schedVars, caller, otherVars>>

\* TaskScheduler::getTaskCount()
PGetTaskCount == Len(ptasks)

\* the closures the Task objects of s hold
PHeld(s) == {s[k].id : k \in 1..Len(s)}

\* explicit TaskScheduler(std::string name): a second scheduler is created,
\* its tasks vector is empty
PNew ==
    /\ ~oalive
    /\ oalive' = TRUE
    /\ otasks' = << >>
    /\ UNCHANGED <<ptasks, pruns, presult, prunLog, pcount, palive, pnext>>
    /\ UNCHANGED <<schedVars, caller, otherVars>>

\* TaskScheduler(TaskScheduler&& other): tasks(std::move(other.tasks)), as
\* in `auto moved_scheduler = std::move(scheduler);`: the new scheduler takes
\* the vector, the source is left alive with an empty vector; no task is
\* executed, sorted or destroyed
PMoveConstruct ==
    /\ palive
    /\ ~oalive
    /\ oalive' = TRUE
    /\ otasks' = ptasks
    /\ ptasks' = << >>
    /\ UNCHANGED <<pruns, presult, prunLog, pcount, palive, pnext>>
    /\ UNCHANGED <<schedVars, caller, otherVars>>

\* operator=(TaskScheduler&& other): `tasks = std::move(other.tasks)` unless
\* this == &other.  toFirst: scheduler = std::move(moved_scheduler), else
\* moved_scheduler = std::move(scheduler); self: scheduler =
\* std::move(scheduler).  The Task objects the destination held are
\* destroyed, which calls none of them; the source is left empty
PMoveAssign(toFirst, self) ==
    /\ palive
    /\ IF self
       THEN UNCHANGED <<ptasks, otasks, pcount>>
       ELSE /\ oalive
            /\ ptasks' = IF toFirst THEN otasks ELSE << >>
            /\ otasks' = IF toFirst THEN << >> ELSE ptasks
            /\ pcount' = DestroyMembers(pcount,
                             PHeld(IF toFirst THEN ptasks ELSE otasks))
    /\ UNCHANGED <<pruns, presult, prunLog, palive, pnext, oalive>>
    /\ UNCHANGED <<schedVars, caller, otherVars>>

\* ~TaskScheduler(): the body prints, then the member tasks is destroyed;
\* ~Task() prints and destroys task_func without calling it
PDestroy ==
    /\ palive
    /\ palive' = FALSE
    /\ ptasks' = << >>
    /\ pcount' = DestroyMembers(pcount, PHeld(ptasks))
    /\ UNCHANGED <<pruns, presult, prunLog, pnext, otasks, oalive>>
    /\ UNCHANGED <<schedVars, caller, otherVars>>

\* ~TaskScheduler() of the second scheduler
PDestroyOther ==
    /\ oalive
    /\ oalive' = FALSE
    /\ otasks' = << >>
    /\ pcount' = DestroyMembers(pcount, PHeld(otasks))
    /\ UNCHANGED <<ptasks, pruns, presult, prunLog, palive, pnext>>
    /\ UNCHANGED <<schedVars, caller, otherVars>>

NextPrio ==
    \/ \E prio \in Prios, kind \in PKinds : AddTask(prio, kind)
    \/ PExecuteAll
    \/ PNew
    \/ PMoveConstruct
    \/ \E toFirst, self \in BOOLEAN : PMoveAssign(toFirst, self)
    \/ PDestroy
    \/ PDestroyOther

SpecPrio == Init /\ [][NextPrio]_vars

\* the program passes its variables and temporaries to schedule_task, by
\* name or by std::move, reassigns its variables, and runs the tasks
NextCapture ==
    \/ \E es \in ArgLists : nextId <= MaxCaptures /\ ScheduleTask(TempFunc, "ok", es)
    \/ \E b \in Bindings, v \in Vals : CallerAssign(b, v)
    \/ ExecuteAllBegin
    \/ AnonStep
    \/ ClearStep
    \/ ReturnStep

SpecCapture == Init /\ [][NextCapture]_vars

\* the program passes callables to schedule_task and schedule_named_task as
\* temporaries, by name or by std::move, and runs the tasks
NextBox ==
    \/ \E fe \in FuncExprs : ScheduleTask(fe, "ok", << >>)
    \/ \E fe \in FuncExprs, name \in Names : ScheduleNamedTask(fe, name, "ok")
    \/ ExecuteAllBegin
    \/ AnonStep
    \/ ClearStep
    \/ NamedStep
    \/ ReturnStep

SpecBox == Init /\ [][NextBox]_vars

\* ------------------------------------------------- CacheSystem::LRUCache
\* LRUCache(size): maxSize(size), cache.reserve(size)
NewCache(n) ==
    /\ cpc = "none"
    /\ cpc' = "ok"
    /\ maxSize' = n
    /\ cache' = << >>
    /\ UNCHANGED <<lastOp, lastPut, recency>>
    /\ UNCHANGED <<schedVars, caller, prioVars, eventVars, rmVars>>

\* what is seen of a put(k, e) call: whether the key was held, the special
\* member functions applied to the value, the argument object after the
\* call, and the key the call reported as removed (0 for none)
PutOp(k, e, ops, hit, old) ==
    [op |-> "put", key |-> k, cat |-> e.cat, found |-> hit,
     value |-> MovedFrom, transfers |-> ops,
     arg |-> ArgAfter(ops, LargeObject(e.v)), evicted |-> old]

\* the history after put(k, e) stored the object o in the vector c
PutHistory(k, o, c, evicted) ==
    /\ lastPut' = [x \in {c[i].key : i \in 1..Len(c)} |->
                      IF x = k THEN o ELSE lastPut[x]]
    /\ recency' = Append(SelectSeq(recency, LAMBDA x : x # k /\ x \notin evicted), k)

\* put(key, value)
put(k, e) ==
    /\ cpc = "ok"
    /\ LET i == FindIf(cache, k)
           src == LargeObject(e.v)
       IN IF i # 0
          THEN \* the key is held: assign the value, move the node to the end
               LET o == ApplyAll(AssignTransfers(e.cat), src)
                   c == Rotate([cache EXCEPT ![i].value = o], i)
               IN /\ cache' = c
                  /\ lastOp' = PutOp(k, e, AssignTransfers(e.cat), TRUE, 0)
                  /\ PutHistory(k, o, c, {})
                  /\ UNCHANGED cpc
          ELSE LET o == ApplyAll(NodeTransfers(e.cat), src)
                   full == Full(Len(cache), maxSize)
               IN IF full /\ cache = << >>
                  THEN \* cache.erase(cache.begin()) on an empty vector is
                       \* undefined: the call faults, or it goes on and
                       \* emplace_back adds the node
                       \/ /\ cpc' = "crashed"
                          /\ UNCHANGED <<cache, lastOp, lastPut, recency>>
                       \/ /\ cache' = EmplaceBack(cache, CacheNode(k, o))
                          /\ lastOp' = PutOp(k, e, NodeTransfers(e.cat), FALSE, 0)
                          /\ PutHistory(k, o, <<CacheNode(k, o)>>, {})
                          /\ UNCHANGED cpc
                  ELSE LET kept == IF full THEN EraseBegin(cache) ELSE cache
                           c == EmplaceBack(kept, CacheNode(k, o))
                       IN /\ cache' = c
                          /\ lastOp' = PutOp(k, e, NodeTransfers(e.cat), FALSE,
                                             IF full THEN cache[1].key ELSE 0)
                          /\ PutHistory(k, o, c,
                                        IF full THEN {Head(recency)} ELSE {})
                          /\ UNCHANGED cpc
    /\ UNCHANGED maxSize
    /\ UNCHANGED <<schedVars, caller, prioVars, eventVars, rmVars>>

\* get(key): a hit moves the stored value into the result and the node to
\* the end; a miss returns a copy of the function's static empty_value
get(k) ==
    /\ cpc = "ok"
    /\ LET i == FindIf(cache, k)
       IN IF i # 0
          THEN /\ cache' = Rotate([cache EXCEPT ![i].value = MovedFrom], i)
               /\ lastOp' = [op |-> "get", key |-> k, cat |-> "none",
                              found |-> TRUE, value |-> cache[i].value,
                              transfers |-> <<"move", "move">>, arg |-> MovedFrom,
                              evicted |-> 0]
               /\ recency' = Append(SelectSeq(recency, LAMBDA x : x # k), k)
          ELSE /\ lastOp' = [op |-> "get", key |-> k, cat |-> "none",
                              found |-> FALSE,
                              value |-> CopyConstruct(LargeObject(Empty)),
                              transfers |-> <<"copy">>, arg |-> MovedFrom,
                              evicted |-> 0]
               /\ UNCHANGED <<cache, recency>>
    /\ UNCHANGED <<maxSize, cpc, lastPut>>
    /\ UNCHANGED <<schedVars, caller, prioVars, eventVars, rmVars>>

\* the program constructs one cache and calls put and get on it
NextCache ==
    \/ \E n \in Sizes : NewCache(n)
    \/ \E k \in CKeys, e \in ValExprs : put(k, e)
    \/ \E k \in CKeys : get(k)

SpecCache == Init /\ [][NextCache]_vars

\* ------------------------------------------------- EventSystem::EventHandler
\* emplace_event<EventType>(args...): std::make_unique, then push
EmplaceEvent(type) ==
    /\ epc = "idle"
    /\ enext <= MaxEvents
    /\ LET ev == [id |-> enext, type |-> type]
       IN /\ eventQueue' = Push(eventQueue, ev)
          /\ added' = Append(added, ev)
    /\ enext' = enext + 1
    /\ lastE' = "add"
    /\ UNCHANGED <<epc, handled>>
    /\ UNCHANGED <<schedVars, caller, prioVars, cacheVars, rmVars>>

\* add_event(std::unique_ptr<Event> event) with a pointer to a new event
\* (isNull = FALSE) or with a pointer that owns nothing, such as one that
\* was moved from.  event->getType() on the null pointer is undefined: the
\* call faults, or it goes on and pushes the null pointer
AddEvent(type, isNull) ==
    /\ epc = "idle"
    /\ enext <= MaxEvents
    /\ LET ev == IF isNull THEN NullEvent ELSE [id |-> enext, type |-> type]
       IN \/ /\ eventQueue' = Push(eventQueue, ev)
             /\ added' = Append(added, ev)
             /\ lastE' = "add"
             /\ UNCHANGED epc
          \/ /\ isNull
             /\ epc' = "crashed"
             /\ UNCHANGED <<eventQueue, added, lastE>>
    /\ enext' = enext + 1
    /\ UNCHANGED handled
    /\ UNCHANGED <<schedVars, caller, prioVars, cacheVars, rmVars>>

\* process_events is called
ProcessBegin ==
    /\ epc = "idle"
    /\ epc' = "loop"
    /\ UNCHANGED <<eventQueue, handled, added, enext, lastE>>
    /\ UNCHANGED <<schedVars, caller, prioVars, cacheVars, rmVars>>

\* one iteration of while (!eventQueue.empty()): the front is moved out,
\* popped and handled; event->getType() on a null pointer is undefined
ProcessStep ==
    /\ epc = "loop"
    /\ eventQueue # << >>
    /\ LET ev == Front(eventQueue)
       IN \/ /\ eventQueue' = Pop(eventQueue)
             /\ handled' = Append(handled, [event |-> ev, out |-> Handle(ev)])
             /\ UNCHANGED epc
          \/ /\ ev = NullEvent
             /\ epc' = "crashed"
             /\ eventQueue' = Pop(eventQueue)
             /\ UNCHANGED handled
    /\ UNCHANGED <<added, enext, lastE>>
    /\ UNCHANGED <<schedVars, caller, prioVars, cacheVars, rmVars>>

\* the queue is empty: process_events returns
ProcessReturn ==
    /\ epc = "loop"
    /\ eventQueue = << >>
    /\ epc' = "idle"
    /\ lastE' = "process"
    /\ UNCHANGED <<eventQueue, handled, added, enext>>
    /\ UNCHANGED <<schedVars, caller, prioVars, cacheVars, rmVars>>

process_events == ProcessBegin \/ ProcessStep \/ ProcessReturn

NextEvents ==
    \/ \E type \in EventTypes : EmplaceEvent(type)
    \/ \E type \in EventTypes, isNull \in BOOLEAN : AddEvent(type, isNull)
    \/ process_events

SpecEvents == Init /\ [][NextEvents]_vars

\* ------------------------------------------------- ResourceManager
\* ResourceManager(): data(nullptr), size(0), name("empty")
RmDefault(o) ==
    /\ ~rm[o].live
    /\ rm' = [rm EXCEPT ![o] =
                 [live |-> TRUE, data |-> NullPtr, size |-> 0, name |-> "empty"]]
    /\ lastRm' = RmOp("default", o, 0)
    /\ UNCHANGED <<heap, nextBuf, rmCopies>>
    /\ UNCHANGED <<schedVars, caller, prioVars, cacheVars, eventVars>>

\* ResourceManager(s, n): data(std::make_unique<int[]>(s)), size(s), name(n)
RmNew(o, n, nm) ==
    /\ ~rm[o].live
    /\ nextBuf <= MaxBuf
    /\ rm' = [rm EXCEPT ![o] =
                 [live |-> TRUE, data |-> nextBuf, size |-> n, name |-> nm]]
    /\ heap' = heap \cup {nextBuf}
    /\ nextBuf' = nextBuf + 1
    /\ lastRm' = RmOp("new", o, 0)
    /\ UNCHANGED rmCopies
    /\ UNCHANGED <<schedVars, caller, prioVars, cacheVars, eventVars>>

\* ResourceManager(const ResourceManager& other): a new object d is
\* constructed as a copy of src.  It gets a buffer of its own when
\* other.size > 0 and none otherwise, the size, and the name with "_copy"
\* appended; src is left as it was
RmCopyConstruct(d, src) ==
    /\ ~rm[d].live
    /\ rm[src].live
    /\ rmCopies < MaxCopies
    /\ IF rm[src].size > 0
       THEN /\ nextBuf <= MaxBuf
            /\ rm' = [rm EXCEPT
                         ![d] = [live |-> TRUE, data |-> nextBuf,
                                 size |-> rm[src].size,
                                 name |-> rm[src].name \o "_copy"]]
            /\ heap' = heap \cup {nextBuf}
            /\ nextBuf' = nextBuf + 1
       ELSE /\ rm' = [rm EXCEPT
                         ![d] = [live |-> TRUE, data |-> NullPtr,
                                 size |-> rm[src].size,
                                 name |-> rm[src].name \o "_copy"]]
            /\ UNCHANGED <<heap, nextBuf>>
    /\ rmCopies' = rmCopies + 1
    /\ lastRm' = RmOp("copy_construct", d, src)
    /\ UNCHANGED <<schedVars, caller, prioVars, cacheVars, eventVars>>

\* operator=(const ResourceManager& other): d = src.  Unless this == &other,
\* d gets a new buffer when other.size > 0 (the assignment to its
\* unique_ptr frees the buffer d owned) and data.reset() otherwise, the
\* size, and the name with "_assigned" appended; src is left as it was
RmCopyAssign(d, src) ==
    /\ rm[d].live
    /\ rm[src].live
    /\ rmCopies < MaxCopies
    /\ IF d # src
       THEN IF rm[src].size > 0
            THEN /\ nextBuf <= MaxBuf
                 /\ rm' = [rm EXCEPT
                              ![d] = [live |-> TRUE, data |-> nextBuf,
                                      size |-> rm[src].size,
                                      name |-> rm[src].name \o "_assigned"]]
                 /\ heap' = Freed(heap, rm[d].data) \cup {nextBuf}
                 /\ nextBuf' = nextBuf + 1
            ELSE /\ rm' = [rm EXCEPT
                              ![d] = [live |-> TRUE, data |-> NullPtr,
                                      size |-> rm[src].size,
                                      name |-> rm[src].name \o "_assigned"]]
                 /\ heap' = Freed(heap, rm[d].data)
                 /\ UNCHANGED nextBuf
       ELSE UNCHANGED <<rm, heap, nextBuf>>
    /\ rmCopies' = rmCopies + 1
    /\ lastRm' = RmOp("copy_assign", d, src)
    /\ UNCHANGED <<schedVars, caller, prioVars, cacheVars, eventVars>>

\* getName()
getName(o) == rm[o].name

\* getSize()
getSize(o) == rm[o].size

\* getData(): data.get()
getData(o) == rm[o].data

\* ResourceManager(ResourceManager&& other): a new object d is constructed
\* from std::move(s)
RmMoveConstruct(d, src) ==
    /\ ~rm[d].live
    /\ rm[src].live
    /\ rm' = [rm EXCEPT
                 ![d] = [live |-> TRUE, data |-> rm[src].data,
                         size |-> rm[src].size, name |-> rm[src].name],
                 ![src] = [live |-> TRUE, data |-> ReleasePtr(rm[src].data),
                           size |-> 0, name |-> "moved_from"]]
    /\ lastRm' = RmOp("move_construct", d, src)
    /\ UNCHANGED <<heap, nextBuf, rmCopies>>
    /\ UNCHANGED <<schedVars, caller, prioVars, cacheVars, eventVars>>

\* operator=(ResourceManager&& other): d = std::move(src); the buffer d
\* owned is freed by the assignment to its unique_ptr
RmMoveAssign(d, src) ==
    /\ rm[d].live
    /\ rm[src].live
    /\ IF d # src
       THEN /\ rm' = [rm EXCEPT
                        ![d] = [live |-> TRUE, data |-> rm[src].data,
                                size |-> rm[src].size, name |-> rm[src].name],
                        ![src] = [live |-> TRUE, data |-> ReleasePtr(rm[src].data),
                                  size |-> 0, name |-> "moved_from"]]
            /\ heap' = Freed(heap, rm[d].data)
       ELSE UNCHANGED <<rm, heap>>
    /\ lastRm' = RmOp("move_assign", d, src)
    /\ UNCHANGED <<nextBuf, rmCopies>>
    /\ UNCHANGED <<schedVars, caller, prioVars, cacheVars, eventVars>>

\* ~ResourceManager(): the unique_ptr frees the buffer it owns
RmDestroy(o) ==
    /\ rm[o].live
    /\ rm' = [rm EXCEPT ![o] = NoObject]
    /\ heap' = Freed(heap, rm[o].data)
    /\ lastRm' = RmOp("destroy", o, 0)
    /\ UNCHANGED <<nextBuf, rmCopies>>
    /\ UNCHANGED <<schedVars, caller, prioVars, cacheVars, eventVars>>

NextRm ==
    \/ \E o \in Slots : RmDefault(o)
    \/ \E o \in Slots, n \in Lens, nm \in RmNames : RmNew(o, n, nm)
    \/ \E d, src \in Slots : RmCopyConstruct(d, src)
    \/ \E d, src \in Slots : RmCopyAssign(d, src)
    \/ \E d, src \in Slots : RmMoveConstruct(d, src)
    \/ \E d, src \in Slots : RmMoveAssign(d, src)
    \/ \E o \in Slots : RmDestroy(o)

SpecRm == Init /\ [][NextRm]_vars

\* ================================================================ claims
\* the anonymous part of the invocation log of the current / last execute_all
AnonLog == SelectSeq(runLog, LAMBDA e : e.key = NoName)

\* the closures invoked by the current / last execute_all
Invoked == {runLog[i].id : i \in 1..Len(runLog)}

\* C1 (FIFO order): one execute_all invokes the anonymous tasks in exactly
\* their submission order.  The queue holds the tasks in the order of their
\* schedule_task calls (closure ids grow with every submission), the k-th
\* anonymous invocation of a call is the k-th task of the queue as it was
\* when the call began, and a call that gets past the first loop has invoked
\* all of them.
FifoOrder ==
    /\ \A i, j \in 1..Len(tasks) : i < j => tasks[i].id < tasks[j].id
    /\ \A i, j \in 1..Len(batch) : i < j => batch[i].id < batch[j].id
    /\ Len(AnonLog) <= Len(batch)
    /\ \A i \in 1..Len(AnonLog) : AnonLog[i].id = batch[i].id
    /\ (pc = "named" \/ result = "returned") => Len(AnonLog) = Len(batch)

\* three anonymous tasks A, B, C were submitted and one execute_all ran them
FifoOrderWitness ==
    /\ result = "returned"
    /\ Len(batch) = 3
    /\ Len(AnonLog) = 3
    /\ \A i \in 1..3 : AnonLog[i].id = i

\* C7 (named overwrite): a task that schedule_named_task overwrote is never
\* invoked from then on, and the map holds, for each name, a task that was
\* not overwritten (one task per name, the one submitted last).
NamedOverwrite ==
    [][ /\ \A i \in replaced : count'[i] = count[i]
        /\ \A n \in DOMAIN namedTasks' : namedTasks'[n].id \notin replaced' ]_vars

\* T1 was overwritten by T2 before it ever ran, and an execute_all that
\* returned invoked T2 under the key
NamedOverwriteWitness ==
    /\ result = "returned"
    /\ \E i \in replaced : count[i] = 0
    /\ \E n \in DOMAIN namedTasks :
          \E k \in 1..Len(runLog) :
              runLog[k].key = n /\ runLog[k].id = namedTasks[n].id

\* C8 (batch ordering): within one execute_all every anonymous task is
\* invoked before any named task, and the named tasks are invoked in the
\* ascending order of their keys.
BatchOrdering ==
    \A i, j \in 1..Len(runLog) :
        (i < j /\ runLog[i].key # NoName)
            => (runLog[j].key # NoName /\ runLog[i].key < runLog[j].key)

\* the names were submitted in descending order (2 before 1), an anonymous
\* task was queued as well, and the call ran anonymous, key 1, key 2
BatchOrderingWitness ==
    /\ result = "returned"
    /\ Len(runLog) = 3
    /\ runLog[1].key = NoName
    /\ runLog[2].key = 1
    /\ runLog[3].key = 2
    /\ runLog[3].id < runLog[2].id

\* C2 (priority order): execute_all of the priority variant runs the tasks
\* in descending priority, and tasks of equal priority in the order of their
\* add_task calls.
PriorityStable ==
    \A i, j \in 1..Len(prunLog) :
        i < j => \/ prunLog[i].prio > prunLog[j].prio
                 \/ /\ prunLog[i].prio = prunLog[j].prio
                    /\ prunLog[i].id < prunLog[j].id

\* the tasks that were queued, anonymously or by name, when the current /
\* last execute_all was called
BatchIds ==
    {batch[i].id : i \in 1..Len(batch)}
        \cup {batchNamed[n].id : n \in DOMAIN batchNamed}

\* an invocation of the current / last execute_all raised
Raised == \E k \in 1..Len(runLog) : runLog[k].kind = "throw"

\* C3 (partial failure): when the invocation of one task of a batch raises,
\* every other task of that batch is still invoked before execute_all ends.
PartialFailure ==
    (pc = "idle" /\ Raised) => BatchIds \subseteq Invoked

\* C4 (exactly-once execution): a named task that is still held when
\* execute_all is called again is not run a second time (its callable, which
\* returned normally the first time, has been invoked at most once).
ExactlyOnce ==
    \A n \in DOMAIN namedTasks :
        namedTasks[n].kind = "ok" => count[namedTasks[n].id] <= 1

\* C5 (anonymous tasks run once and are discarded): a task added to the
\* priority variant is invoked by one execute_all only and is not stored any
\* more once it was invoked.
InvokedOnceThenDiscarded ==
    /\ \A i \in Ids : pcount[i] <= 1
    /\ \A k \in 1..Len(ptasks) : pcount[ptasks[k].id] = 0

\* C6 (re-entrant submission): a task that a running task submits is kept,
\* is not invoked by the execute_all that is running, and stays queued until
\* an execute_all invokes it.
ReentrantDeferred ==
    /\ Invoked \subseteq BatchIds
    /\ pc # "destroyed" =>
          \A i \in anonIds :
              count[i] = 0 => \E k \in 1..Len(tasks) : tasks[k].id = i

\* C9 as stated (ownership-mode fidelity): when schedule_task returns, every
\* variable the caller passed with std::move is moved-from (empty) and every
\* variable it passed by name holds the value it held before the call.
OwnershipFidelity ==
    [][ nextId' # nextId =>
          \A fe \in FuncExprs, es \in ArgLists :
              ScheduleTask(fe, "ok", es) =>
                  \A i \in 1..Len(es) :
                      /\ es[i].cat = "xvalue" => caller'[es[i].b] = Empty
                      /\ es[i].cat = "lvalue" => caller'[es[i].b] = caller[es[i].b] ]_vars

\* C9 as amended (ownership-mode fidelity per variable): when schedule_task
\* returns, every variable the caller passed with std::move is moved-from
\* (empty), and every variable it passed by name, and did not pass with
\* std::move in another argument of the same call, holds the value it held
\* before the call.
OwnershipFidelityPerVariable ==
    [][ nextId' # nextId =>
          \A fe \in FuncExprs, es \in ArgLists :
              ScheduleTask(fe, "ok", es) =>
                  \A i \in 1..Len(es) :
                      /\ es[i].cat = "xvalue" => caller'[es[i].b] = Empty
                      /\ (es[i].cat = "lvalue"
                            /\ \A j \in 1..Len(es) :
                                  j # i => ~MovesOut(es, j, es[i].b)) =>
                              caller'[es[i].b] = caller[es[i].b] ]_vars

\* schedule_task(f, message, std::move(str)) has returned: the task holds
\* both values, message is unchanged and str is empty
OwnershipFidelityWitness ==
    /\ pc = "idle"
    /\ runs = 0
    /\ Len(tasks) = 1
    /\ tasks[1].args = <<1, 2>>
    /\ caller["message"] = 1
    /\ caller["str"] = Empty

\* C10 (errors are collected): no error raised by a task invocation is
\* thrown out of execute_all.
ErrorsCollected == result # "threw"

\* C11 (execute_all is exhaustive): when execute_all has returned, every
\* task that was queued, anonymously or by name, when it was called has been
\* invoked by it.
ExhaustiveRun == result = "returned" => BatchIds \subseteq Invoked

\* the closures the scheduler holds, as records
HeldTasks ==
    {tasks[k] : k \in 1..Len(tasks)}
        \cup {namedTasks[n] : n \in DOMAIN namedTasks}

\* execute_all returns in this step
Returns == pc = "named" /\ pc' = "idle" /\ result' = "returned"

\* C12 (named tasks survive execution): no entry of namedTasks is removed
\* while the scheduler lives; an execute_all that returns leaves namedTasks
\* mapping the same names to the same tasks as when it was called; and each
\* named task that an earlier execute_all invoked and that was held when
\* this execute_all was called has been invoked by it when the call is left,
\* by return or by exception.
NamedSurvive ==
    [][ /\ pc' # "destroyed" =>
              \A n \in DOMAIN namedTasks : n \in DOMAIN namedTasks'
        /\ Returns => namedTasks' = batchNamed
        /\ (pc \in {"anon", "named"} /\ pc' = "idle") =>
              \A n \in DOMAIN batchNamed :
                  LET byThisCall == {k \in 1..Len(runLog') :
                                        /\ runLog'[k].key = n
                                        /\ runLog'[k].id = batchNamed[n].id}
                  IN  count'[batchNamed[n].id] > Cardinality(byThisCall) =>
                          byThisCall # {} ]_vars

\* the anonymous tasks that the named tasks of the current / last
\* execute_all submitted (each invocation of such a task submits one)
SubmittedByNamed ==
    Cardinality({k \in 1..Len(runLog) :
                    runLog[k].key # NoName /\ runLog[k].kind = "subAnon"})

\* C13 as stated (pending count): getTaskCount is tasks.size() +
\* namedTasks.size(), and when an execute_all has returned it equals the
\* number of distinct names submitted so far.
PendingCountIsNames ==
    [][ Returns => getTaskCount' = Cardinality(DOMAIN namedTasks') ]_vars

\* C13 as amended: when an execute_all has returned, getTaskCount equals the
\* number of distinct names submitted so far plus the number of anonymous
\* tasks that named tasks submitted during that call.
PendingCount ==
    [][ Returns =>
          getTaskCount' = Cardinality(DOMAIN namedTasks') + SubmittedByNamed' ]_vars

\* one name is held; its task submitted an anonymous task during the
\* execute_all that has just returned: getTaskCount is 2
PendingCountWitness ==
    /\ pc = "idle"
    /\ result = "returned"
    /\ Cardinality(DOMAIN namedTasks) = 1
    /\ SubmittedByNamed = 1
    /\ Len(tasks) = 1
    /\ nextId = tasks[1].id + 1
    /\ getTaskCount = 2

\* C15 as stated (scheduler state machine): after execute_all returns the
\* scheduler is idle and holds no pending task, getTaskCount is 0.
IdleAfterRun ==
    [][ Returns => (pc' = "idle" /\ getTaskCount' = 0) ]_vars

\* C15 as amended: after execute_all returns the scheduler is idle and
\* holds none of the anonymous tasks that were queued when it was called;
\* getTaskCount is 0 exactly when no named task is held.
IdleKeepsNamed ==
    [][ Returns =>
          /\ pc' = "idle"
          /\ \A k \in 1..Len(tasks') : tasks'[k].id \notin BatchIds
          /\ (getTaskCount' = 0) <=> (DOMAIN namedTasks' = {}) ]_vars

\* two anonymous tasks and one named task were queued, execute_all has
\* returned: the anonymous tasks are gone, the named task is still held
IdleKeepsNamedWitness ==
    /\ pc = "idle"
    /\ result = "returned"
    /\ Len(batch) = 2
    /\ tasks = << >>
    /\ DOMAIN namedTasks = {1}
    /\ namedTasks = batchNamed
    /\ getTaskCount = 1

\* C16 (single transfer per argument): each captured argument of a stored
\* task got there by exactly one constructor call (one copy or one move).
SingleTransfer ==
    \A k \in 1..Len(tasks) :
        \A i \in 1..Len(tasks[k].args) :
            i \notin DOMAIN tasks[k].refs => Len(tasks[k].made.args[i]) = 1

\* C17 as stated (boxing always transfers): no stored task was made by
\* copying the caller's callable.
CallableAlwaysMoved ==
    \A t \in HeldTasks :
        \A j \in 1..Len(t.made.func) : t.made.func[j] # "copy"

\* C17 as amended (boxing follows the way the callable is passed): a
\* callable passed as a temporary or with std::move is moved into the stored
\* task and never copied, and the object named in std::move is left
\* moved-from; a callable passed by name is copied once, by the first
\* constructor call, and the caller's object is left as it was; every later
\* constructor call on the callable is a move.
BoxingFollowsCategory ==
    [][ (pc = "idle" /\ nextId' # nextId) =>
          \A fe \in FuncExprs :
              (\/ ScheduleTask(fe, "ok", << >>)
               \/ \E name \in Names : ScheduleNamedTask(fe, name, "ok")) =>
                  \A t \in HeldTasks' :
                      t.id = nextId =>
                          /\ \A j \in 2..Len(t.made.func) : t.made.func[j] = "move"
                          /\ fe.cat = "lvalue" =>
                                /\ t.made.func[1] = "copy"
                                /\ caller'["func"] = caller["func"]
                          /\ fe.cat = "xvalue" =>
                                /\ t.made.func[1] = "move"
                                /\ caller'["func"] = Empty
                          /\ fe.cat = "prvalue" =>
                                /\ t.made.func[1] = "move"
                                /\ caller' = caller ]_vars

\* the caller passed its callable by name to schedule_task and to
\* schedule_named_task: both stored tasks were made by a copy, both have
\* run, and the caller's callable is still valid
BoxingFollowsCategoryWitness ==
    /\ result = "returned"
    /\ caller["func"] # Empty
    /\ Len(batch) = 1
    /\ batch[1].made.func = <<"copy", "move">>
    /\ count[batch[1].id] = 1
    /\ \E n \in DOMAIN namedTasks :
          /\ namedTasks[n].made.func = <<"copy">>
          /\ count[namedTasks[n].id] = 1

\* C18 as stated (captured arguments are isolated from the caller): a slot
\* that schedule_task copy-constructs from a variable the caller passes by
\* name holds the value the variable has at the call; the slot keeps that
\* value as long as the task is stored, whatever the caller assigns to the
\* variable; and the callable receives that value when it is invoked.
Isolation ==
    [][ /\ (pc = "idle" /\ nextId' # nextId) =>
              \A es \in ArgLists :
                  ScheduleTask(TempFunc, "ok", es) =>
                      \A i \in 1..Len(es) :
                          es[i].cat = "lvalue" =>
                              tasks'[Len(tasks')].args[i] = caller[es[i].b]
        /\ \A k \in 1..Len(tasks) :
              (k <= Len(tasks') /\ tasks'[k].id = tasks[k].id) =>
                  tasks'[k].args = tasks[k].args
        /\ (pc = "anon" /\ Len(runLog') = Len(runLog) + 1) =>
              \A i \in 1..Len(tasks[it].args) :
                  (tasks[it].made.args[i] # << >>
                      /\ tasks[it].made.args[i][1] = "copy") =>
                          runLog'[Len(runLog')].args[i] = tasks[it].args[i] ]_vars

\* C18 as amended (captured arguments are isolated from the caller): a slot
\* that schedule_task copy-constructs from a variable the caller passes by
\* name, and does not pass with std::move in another argument of the same
\* call, holds the value the variable has at the call; every slot keeps its
\* value as long as the task is stored, whatever the caller assigns to the
\* variable; and the callable receives the value of the slot when it is
\* invoked.
IsolationPerVariable ==
    [][ /\ (pc = "idle" /\ nextId' # nextId) =>
              \A es \in ArgLists :
                  ScheduleTask(TempFunc, "ok", es) =>
                      \A i \in 1..Len(es) :
                          (es[i].cat = "lvalue"
                              /\ \A j \in 1..Len(es) :
                                    j # i => ~MovesOut(es, j, es[i].b)) =>
                                  tasks'[Len(tasks')].args[i] = caller[es[i].b]
        /\ \A k \in 1..Len(tasks) :
              (k <= Len(tasks') /\ tasks'[k].id = tasks[k].id) =>
                  tasks'[k].args = tasks[k].args
        /\ (pc = "anon" /\ Len(runLog') = Len(runLog) + 1) =>
              \A i \in 1..Len(tasks[it].args) :
                  (tasks[it].made.args[i] # << >>
                      /\ tasks[it].made.args[i][1] = "copy") =>
                          runLog'[Len(runLog')].args[i] = tasks[it].args[i] ]_vars

\* schedule_task(f, str) with str holding 2, then the caller assigned 1 to
\* str, then execute_all invoked f: f received 2
IsolationWitness ==
    /\ result = "returned"
    /\ Len(batch) = 1
    /\ batch[1].made.args = << <<"copy", "move">> >>
    /\ Len(runLog) = 1
    /\ runLog[1].args = <<2>>
    /\ caller["str"] = 1

\* C19 (scheduler teardown): the destruction of a scheduler invokes no
\* task; the tasks it held are gone, and the invocation log of the last
\* execute_all is what it was.
TeardownDiscards ==
    [][ /\ pc' = "destroyed" =>
              /\ count' = count
              /\ runLog' = runLog
              /\ tasks' = << >>
              /\ namedTasks' = EmptyMap
        /\ ~palive' =>
              /\ pcount' = pcount
              /\ prunLog' = prunLog
              /\ ptasks' = << >> ]_vars

\* a scheduler holding one anonymous and one named task, neither of which
\* was ever invoked, was destroyed
TeardownDiscardsWitness ==
    /\ pc = "destroyed"
    /\ runs = 0
    /\ nextId = 3
    /\ anonIds = {1}
    /\ replaced = {}
    /\ count[1] = 0
    /\ count[2] = 0

\* C20 (deferred invocation): a callable is invoked only by a step of an
\* execute_all that was called after the callable was submitted (it is one
\* of the tasks that were queued when that execute_all was called); no
\* submission invokes anything.
DeferredInvocation ==
    [][ \A i \in Ids :
          count'[i] # count[i] =>
              (pc \in {"anon", "named"} /\ i \in BatchIds) ]_vars

\* C21 (positional unpacking): every anonymous invocation of an execute_all
\* passes the callable as many arguments as the task has slots (none for a
\* task submitted without arguments); the i-th argument is the value held
\* by slot i of the task as it was queued, and for a slot that is a
\* reference, while the call runs, the value of the variable it is bound to.
PositionalUnpacking ==
    \A k \in 1..Len(AnonLog) :
        /\ k <= Len(batch)
        /\ Len(AnonLog[k].args) = Len(batch[k].made.args)
        /\ \A i \in 1..Len(AnonLog[k].args) :
              IF i \in DOMAIN batch[k].refs
              THEN pc \in {"anon", "named"} =>
                       AnonLog[k].args[i] = caller[batch[k].refs[i]]
              ELSE AnonLog[k].args[i] = batch[k].args[i]

\* schedule_task(f, message, std::move(str)) captured <<1, 2>> and the
\* execute_all that has returned called f(1, 2)
PositionalUnpackingWitness ==
    /\ result = "returned"
    /\ Len(batch) = 1
    /\ batch[1].args = <<1, 2>>
    /\ Len(runLog) = 1
    /\ runLog[1].args = <<1, 2>>

\* execute_all is left by an exception while its first loop runs
AnonRaises == pc = "anon" /\ pc' = "idle" /\ result' = "threw"

\* C26 as stated (failure leaves the queue intact): when the invocation of
\* an anonymous task raises, execute_all exits with tasks and namedTasks
\* exactly as they were when it was called, and it has invoked the tasks up
\* to the failing one only.
FailureLeavesQueue ==
    [][ (AnonRaises /\ ~stale) =>
          /\ tasks' = batch
          /\ namedTasks' = batchNamed
          /\ Len(runLog') <= Len(batch)
          /\ \A k \in 1..Len(runLog') : runLog'[k].id = batch[k].id ]_vars

\* C26 as amended (failure removes nothing): when the invocation of an
\* anonymous task raises, execute_all exits with tasks being what it was
\* at the call followed by one task for each schedule_task call the invoked
\* tasks made, with namedTasks being what it was at the call except for the
\* names the invoked tasks submitted (unchanged when they submitted none),
\* and it has invoked the anonymous tasks up to the failing one, in order,
\* and nothing else.
FailureKeepsQueued ==
    [][ AnonRaises =>
          LET subs(kd) == {k \in 1..Len(runLog') : runLog'[k].kind = kd} IN
          /\ Len(tasks') = Len(batch) + Cardinality(subs("subAnon"))
          /\ SubSeq(tasks', 1, Len(batch)) = batch
          /\ \A k \in (Len(batch) + 1)..Len(tasks') : tasks'[k].id \notin BatchIds
          /\ DOMAIN batchNamed \subseteq DOMAIN namedTasks'
          /\ \A n \in DOMAIN namedTasks' :
                \/ n \in DOMAIN batchNamed /\ namedTasks'[n] = batchNamed[n]
                \/ namedTasks'[n].id \notin BatchIds
          /\ subs("subNamed") = {} => namedTasks' = batchNamed
          /\ Len(runLog') <= Len(batch)
          /\ \A k \in 1..Len(runLog') :
                /\ runLog'[k].key = NoName
                /\ runLog'[k].id = batch[k].id
                /\ k < Len(runLog') => runLog'[k].kind # "throw" ]_vars

\* two tasks were queued; the first submitted a name, the second raised:
\* execute_all exited with the two tasks still queued and the name held
FailureKeepsQueuedWitness ==
    /\ pc = "idle"
    /\ result = "threw"
    /\ Len(batch) = 2
    /\ tasks = batch
    /\ Len(runLog) = 2
    /\ runLog[1].kind = "subNamed"
    /\ runLog[2].kind = "throw"
    /\ batchNamed = EmptyMap
    /\ Cardinality(DOMAIN namedTasks) = 1

\* C27 (the priority scheduler keeps its tasks): one execute_all of the
\* priority variant calls execute on every stored task exactly once and
\* removes none; getTaskCount (the length of tasks) is the same before and
\* after, and is the number of add_task calls made so far.
KeepsAndRunsAll ==
    [][ pruns' # pruns =>
          /\ Len(ptasks') = Len(ptasks)
          /\ {ptasks'[k] : k \in 1..Len(ptasks')} = {ptasks[k] : k \in 1..Len(ptasks)}
          /\ {ptasks'[k].id : k \in 1..Len(ptasks')} = 1..Len(ptasks')
          /\ \A k \in 1..Len(ptasks') :
                Cardinality({j \in 1..Len(prunLog') : prunLog'[j] = ptasks'[k]}) = 1 ]_vars

\* C28 (submission frame): a schedule_task call, made by the program or by
\* a running task, appends one task to tasks and changes neither the tasks
\* that were there, nor their order, nor namedTasks; a schedule_named_task
\* call leaves tasks as it is and changes no entry of namedTasks but the
\* one of its name, which holds the submitted task.
SubmissionFrame ==
    [][ /\ anonIds' # anonIds =>
              /\ Len(tasks') = Len(tasks) + 1
              /\ SubSeq(tasks', 1, Len(tasks)) = tasks
              /\ tasks'[Len(tasks')].id = nextId
              /\ namedTasks' = namedTasks
        /\ (nextId' # nextId /\ anonIds' = anonIds) =>
              /\ tasks' = tasks
              /\ \E n \in Names :
                    /\ DOMAIN namedTasks' = DOMAIN namedTasks \cup {n}
                    /\ namedTasks'[n].id = nextId
                    /\ \A m \in DOMAIN namedTasks' \ {n} :
                          namedTasks'[m] = namedTasks[m] ]_vars

\* schedule_task, then schedule_named_task with the name 1, then
\* schedule_task again: the second anonymous task is behind the first
SubmissionFrameWitness ==
    /\ pc = "idle"
    /\ runs = 0
    /\ Len(tasks) = 2
    /\ tasks[1].id = 1
    /\ DOMAIN namedTasks = {1}
    /\ namedTasks[1].id = 2
    /\ tasks[2].id = 3

\* C22 (two moves per inserted value): a put of a key that is not held,
\* with a temporary (an rvalue) as its value, applies exactly two move
\* constructions and no copy to the value; the node at the end of the
\* vector holds the value as it was passed and the argument is moved-from.
TwoMoves ==
    (cpc = "ok" /\ lastOp.op = "put" /\ ~lastOp.found /\ lastOp.cat # "lvalue") =>
        /\ lastOp.transfers = <<"move", "move">>
        /\ Last(cache).key = lastOp.key
        /\ Last(cache).value.v \in Objs
        /\ Last(cache).value.suffix = ""
        /\ lastOp.arg = MovedFrom

\* cache.put(1, LargeObject(1)) on an empty cache of maxSize 2
TwoMovesWitness ==
    /\ maxSize = 2
    /\ lastOp.op = "put"
    /\ lastOp.cat = "prvalue"
    /\ lastOp.transfers = <<"move", "move">>
    /\ cache = <<CacheNode(1, LargeObject(1))>>

\* C23 (LRU eviction): a put of a key that is not held into a full cache
\* (maxSize >= 1) removes the key used least recently, where a put and a
\* get hit are uses of their key; every other node stays as it is and the
\* new key is held.
LruEviction ==
    [][ (/\ cpc = "ok" /\ maxSize >= 1 /\ Len(cache) = maxSize
         /\ lastOp'.op = "put" /\ FindIf(cache, lastOp'.key) = 0
         /\ cache' # cache) =>
          LET lru == Head(recency) IN
          /\ FindIf(cache, lru) # 0
          /\ FindIf(cache', lru) = 0
          /\ lastOp'.evicted = lru
          /\ Len(cache') = Len(cache)
          /\ FindIf(cache', lastOp'.key) # 0
          /\ \A i \in 1..Len(cache) :
                cache[i].key # lru => \E j \in 1..Len(cache') : cache'[j] = cache[i] ]_vars

\* a cache of maxSize 2 held 1 and 2, get read 1, and put(3, ...) removed 2:
\* 1, whose value get moved out, and 3 are held
LruEvictionWitness ==
    /\ maxSize = 2
    /\ lastOp.op = "put"
    /\ lastOp.key = 3
    /\ lastOp.evicted = 2
    /\ KeysOf(cache) = <<1, 3>>
    /\ cache[1].value = MovedFrom

\* C24 (read consistency): a get of a key that is held returns found = true
\* and the value the last put of the key stored, and leaves that value
\* stored for the key.
ReadConsistency ==
    (cpc = "ok" /\ lastOp.op = "get" /\ FindIf(cache, lastOp.key) # 0) =>
        /\ lastOp.found
        /\ lastOp.value = lastPut[lastOp.key]
        /\ cache[FindIf(cache, lastOp.key)].value = lastPut[lastOp.key]

\* C25 (capacity invariant): a cache constructed with maxSize >= 1 never
\* holds more than maxSize nodes, and no two nodes have the same key.
CapacityInvariant ==
    (cpc = "ok" /\ maxSize >= 1) =>
        /\ size <= maxSize
        /\ \A i, j \in 1..Len(cache) : cache[i].key = cache[j].key => i = j

\* a cache of maxSize 2 is full after a put that had to remove a node
CapacityInvariantWitness ==
    /\ cpc = "ok"
    /\ maxSize = 2
    /\ size = 2
    /\ lastOp.op = "put"
    /\ lastOp.evicted # 0
    /\ cache[1].key # cache[2].key

\* the events a handler has handled so far, in order
HandledEvents == [i \in 1..Len(handled) |-> handled[i].event]

\* C29 (event queue): the events handled so far followed by the events in
\* the queue are the events that emplace_event and add_event pushed, in the
\* order of the pushes; no event is handled twice; and when process_events
\* has returned the queue is empty, so every pushed event was handled.
EventFifo ==
    epc # "crashed" =>
        /\ HandledEvents \o eventQueue = added
        /\ \A i, j \in 1..Len(handled) :
              (handled[i].event = handled[j].event /\ handled[i].event # NullEvent)
                  => i = j
        /\ (epc = "idle" /\ lastE = "process") =>
              (getQueueSize = 0 /\ HandledEvents = added)

\* a mouse event, a keyboard event and a mouse event were pushed and
\* process_events has returned: it handled the three in that order
EventFifoWitness ==
    /\ epc = "idle"
    /\ lastE = "process"
    /\ getQueueSize = 0
    /\ Len(handled) = 3
    /\ \A i \in 1..3 : handled[i].event.id = i
    /\ handled[1].out = "mouse"
    /\ handled[2].out = "key"
    /\ handled[3].out = "mouse"

\* C30 (ownership transfer): a move construction or move assignment from a
\* distinct source gives the destination the buffer and the size the source
\* had and leaves the source with no buffer, size 0 and the name
\* "moved_from"; a move assignment of an object to itself changes no object;
\* and no buffer is owned by two objects, nor by an object after it was freed.
OwnershipTransfer ==
    [][ /\ \A d, src \in Slots :
              (d # src /\ (RmMoveConstruct(d, src) \/ RmMoveAssign(d, src))) =>
                  /\ rm'[d].data = rm[src].data
                  /\ rm'[d].size = rm[src].size
                  /\ rm'[src].data = NullPtr
                  /\ rm'[src].size = 0
                  /\ rm'[src].name = "moved_from"
        /\ (lastRm'.op = "move_assign" /\ lastRm'.d = lastRm'.src
                /\ lastRm' # lastRm) =>
              (rm' = rm /\ heap' = heap)
        /\ \A a, b \in Slots :
              (rm'[a].live /\ rm'[a].data # NullPtr) =>
                  /\ rm'[a].data \in heap'
                  /\ (rm'[b].live /\ rm'[b].data = rm'[a].data) => a = b ]_vars

\* `moved = std::move(original)`: the object in slot 2 owns buffer 1, the
\* object in slot 1 is moved-from
OwnershipTransferWitness ==
    /\ lastRm.op \in {"move_construct", "move_assign"}
    /\ lastRm.d = 2
    /\ lastRm.src = 1
    /\ rm[2] = [live |-> TRUE, data |-> 1, size |-> 1, name |-> "original"]
    /\ rm[1] = [live |-> TRUE, data |-> NullPtr, size |-> 0, name |-> "moved_from"]
    /\ heap = {1}

====
